---- MODULE Spec2Model ----
(***************************************************************************)
(* Model of ffprobe/ffprobe.py: FFProbe.__init__ (the scan of the ffprobe  *)
(* process' stdout for [STREAM] blocks, the scan of its stderr for the     *)
(* container metadata, the classification pass) and FFStream (record       *)
(* construction and the derived queries).                                  *)
(*                                                                         *)
(* Text is modelled as a sequence of tokens: a token is a maximal run of   *)
(* characters that none of the program's string operations cuts (a word, a *)
(* number), or one of the characters/markers the program looks for ("=",   *)
(* "/", ",", ":", " ", "\n", "[STREAM]", "[/STREAM]", "Metadata:",         *)
(* "Stream #").  `x in line` is token membership, str.split cuts at the    *)
(* separator token, str.strip drops whitespace tokens at both ends.        *)
(***************************************************************************)
EXTENDS Integers, Sequences, FiniteSets, TLC

VARIABLES
    pc,                 \* position in FFProbe.__init__ / in the record scenario
    out,                \* lines read so far from p.stdout
    nerr,               \* number of lines read so far from p.stderr
    line,               \* local `line`: the line the stderr loop read last
    stream,             \* local `stream` flag of the two scan loops
    data_lines,         \* local `data_lines` accumulator / FFStream argument
    streams,            \* self.streams
    metadata,           \* self.metadata
    is_metadata,        \* local `is_metadata`
    stream_metadata_met,\* local `stream_metadata_met`
    video, audio, subtitle, attachment,  \* kind lists (references into self.streams)
    exc,                \* exception that left FFProbe.__init__, or "none"
    self,               \* the FFStream a query is called on
    ret                 \* what the last query returned or raised

vars == <<pc, out, nerr, line, stream, data_lines, streams, metadata, is_metadata,
          stream_metadata_met, video, audio, subtitle, attachment, exc, self, ret>>

----------------------------------------------------------------------------
(* Bounds *)

\* lines read from stdout and stderr together in one run of FFProbe.__init__
MaxLines == 6
\* lines of the block an FFStream is built from in the record scenario
MaxData == 3

----------------------------------------------------------------------------
(* Strings *)

Range(s) == {s[i] : i \in 1..Len(s)}

WS == {" ", "\n"}

RECURSIVE LStrip(_)
LStrip(s) == IF s # <<>> /\ Head(s) \in WS THEN LStrip(Tail(s)) ELSE s

RECURSIVE RStrip(_)
RStrip(s) == IF s # <<>> /\ s[Len(s)] \in WS THEN RStrip(SubSeq(s, 1, Len(s) - 1)) ELSE s

\* str.strip()
Strip(s) == RStrip(LStrip(s))

\* str.split(sep): the parts between the occurrences of sep, always at least one
RECURSIVE Split(_, _)
Split(s, sep) ==
    IF \E i \in 1..Len(s) : s[i] = sep
    THEN LET i == CHOOSE k \in 1..Len(s) : s[k] = sep /\ \A j \in 1..(k - 1) : s[j] # sep
         IN  <<SubSeq(s, 1, i - 1)>> \o Split(SubSeq(s, i + 1, Len(s)), sep)
    ELSE <<s>>

\* `sub in line`
Contains(ln, sub) == sub \in Range(ln)

----------------------------------------------------------------------------
(* Numbers: the decimal tokens of the model and what int() makes of them *)

IntTok == [t \in {"0", "1", "2", "3", "5", "30", "1080", "1920"} |->
            CASE t = "0" -> 0 [] t = "1" -> 1 [] t = "2" -> 2 [] t = "3" -> 3
              [] t = "5" -> 5 [] t = "30" -> 30 [] t = "1080" -> 1080
              [] t = "1920" -> 1920]

\* int(s): whitespace around the digits is accepted, anything else is a ValueError
IntParses(s) == Len(Strip(s)) = 1 /\ Strip(s)[1] \in DOMAIN IntTok
IntOf(s) == IntTok[Strip(s)[1]]

Abs(x) == IF x < 0 THEN -x ELSE x

\* round(n / d) for d # 0: Python rounds to the nearest integer, halves to the
\* even neighbour
Round(n, d) ==
    LET nn == IF d < 0 THEN -n ELSE n
        dd == Abs(d)
        q  == nn \div dd
        r  == nn % dd
    IN  IF 2 * r < dd THEN q
        ELSE IF 2 * r > dd THEN q + 1
        ELSE IF q % 2 = 0 THEN q ELSE q + 1

----------------------------------------------------------------------------
(* Python values *)

None       == [tag |-> "None"]
PyInt(i)   == [tag |-> "int", val |-> i]
PyStr(s)   == [tag |-> "str", val |-> s]
\* a float, held as a whole number of microseconds
PyFloat(u) == [tag |-> "float", val |-> u]
PyPair(a, b) == [tag |-> "tuple", val |-> <<a, b>>]
PyDict(k, v) == [tag |-> "dict", val |-> <<k, v>>]

Return(v) == [raised |-> FALSE, exc |-> "none", val |-> v]
Raise(e)  == [raised |-> TRUE, exc |-> e, val |-> None]

----------------------------------------------------------------------------
(* FFStream: record construction *)

EmptyDict == [k \in {} |-> <<>>]

\* dict.get(key, default)
Get(d, key, default) == IF key \in DOMAIN d THEN d[key] ELSE default

Has(d, key) == key \in DOMAIN d

\* dict.update({key: value})
Put(d, key, value) == [k \in DOMAIN d \cup {key} |-> IF k = key THEN value ELSE d[k]]

\* functools.reduce(operator.truediv, map(int, parts)): the parts are converted
\* one at a time, left to right, as the division reaches them; acc is the
\* quotient so far as <<numerator, denominator>>
RECURSIVE ReduceTruediv(_, _, _)
ReduceTruediv(parts, i, acc) ==
    IF i > Len(parts) THEN [exc |-> "none", num |-> acc[1], den |-> acc[2]]
    ELSE IF ~IntParses(parts[i]) THEN [exc |-> "ValueError", num |-> 0, den |-> 1]
    ELSE IF i = 1 THEN ReduceTruediv(parts, 2, <<IntOf(parts[1]), 1>>)
    ELSE IF IntOf(parts[i]) = 0 THEN [exc |-> "ZeroDivisionError", num |-> 0, den |-> 1]
    ELSE ReduceTruediv(parts, i + 1, <<acc[1], acc[2] * IntOf(parts[i])>>)

\* a mutant of Framerate: the two except clauses are swapped
FramerateHandlersSwapped(d) ==
    LET q == ReduceTruediv(Split(Get(d, <<"avg_frame_rate">>, <<>>), "/"), 1, <<0, 1>>)
    IN  CASE q.exc = "none"              -> PyInt(Round(q.num, q.den))
          [] q.exc = "ValueError"        -> PyInt(0)
          [] q.exc = "ZeroDivisionError" -> None

\* the try/except of FFStream.__init__: the value of self.framerate
Framerate(d) ==
    LET q == ReduceTruediv(Split(Get(d, <<"avg_frame_rate">>, <<>>), "/"), 1, <<0, 1>>)
    IN  CASE q.exc = "none"              -> PyInt(Round(q.num, q.den))
          [] q.exc = "ValueError"        -> None
          [] q.exc = "ZeroDivisionError" -> PyInt(0)

\* An FFStream object: d is its __dict__ without the framerate entry, which is
\* held apart (set: whether __dict__ has it).  A `framerate=...` line of the
\* block is overwritten by the derived value in the same loop iteration, so it
\* is never part of d.
NewObject == [d |-> EmptyDict, set |-> FALSE, framerate |-> None]

\* one iteration of the loop of FFStream.__init__: the (key, value, *_)
\* unpacking needs two parts at least and raises ValueError otherwise
FFStreamLine(obj, ln) ==
    LET parts == Split(Strip(ln), "=")
    IN  IF Len(parts) < 2
        THEN [exc |-> "ValueError", obj |-> obj]
        ELSE LET d2 == IF parts[1] = <<"framerate">> THEN obj.d
                       ELSE Put(obj.d, parts[1], parts[2])
             IN  [exc |-> "none",
                  obj |-> [d |-> d2, set |-> TRUE, framerate |-> Framerate(d2)]]

RECURSIVE FFStreamFrom(_, _)
FFStreamFrom(obj, lines) ==
    IF lines = <<>> THEN [exc |-> "none", obj |-> obj]
    ELSE LET r == FFStreamLine(obj, Head(lines))
         IN  IF r.exc # "none" THEN r ELSE FFStreamFrom(r.obj, Tail(lines))

\* FFStream(data_lines)
FFStream(lines) == FFStreamFrom(NewObject, lines)

----------------------------------------------------------------------------
(* FFStream: the queries.  Each is Return(value) or Raise(exception). *)

K(name) == <<name>>

is_audio(obj)      == Has(obj.d, K("codec_type")) /\ obj.d[K("codec_type")] = <<"audio">>
is_video(obj)      == Has(obj.d, K("codec_type")) /\ obj.d[K("codec_type")] = <<"video">>
is_subtitle(obj)   == Has(obj.d, K("codec_type")) /\ obj.d[K("codec_type")] = <<"subtitle">>
is_attachment(obj) == Has(obj.d, K("codec_type")) /\ obj.d[K("codec_type")] = <<"attachment">>

\* self.__dict__.get(key, None)
Passthrough(obj, key) ==
    Return(IF Has(obj.d, K(key)) THEN PyStr(obj.d[K(key)]) ELSE None)

\* try: return int(self.__dict__.get(key, '')) except ValueError: raise FFProbeError
IntQuery(obj, key) ==
    LET v == Get(obj.d, K(key), <<>>)
    IN  IF IntParses(v) THEN Return(PyInt(IntOf(v))) ELSE Raise("FFProbeError")

frame_size(obj) ==
    IF is_video(obj)
    THEN IF ~Has(obj.d, K("width")) \/ ~Has(obj.d, K("height"))
         THEN Raise("KeyError")
         ELSE LET width  == obj.d[K("width")]
                  height == obj.d[K("height")]
              IN  IF width # <<>> /\ height # <<>>
                  THEN IF IntParses(width) /\ IntParses(height)
                       THEN Return(PyPair(IntOf(width), IntOf(height)))
                       ELSE Raise("FFProbeError")
                  ELSE Return(None)
    ELSE Return(None)

aspect_ratio(obj)      == Passthrough(obj, "display_aspect_ratio")
color_range(obj)       == Passthrough(obj, "color_range")
pixel_format(obj)      == Passthrough(obj, "pix_fmt")
codec(obj)             == Passthrough(obj, "codec_name")
channel_layout(obj)    == Passthrough(obj, "channel_layout")
codec_description(obj) == Passthrough(obj, "codec_long_name")
codec_tag(obj)         == Passthrough(obj, "codec_tag_string")

frames(obj) ==
    IF is_video(obj) \/ is_audio(obj) THEN IntQuery(obj, "nb_frames")
    ELSE Return(PyInt(0))

audio_channels(obj) == IntQuery(obj, "channels")
stream_index(obj)   == IntQuery(obj, "index")
bit_rate(obj)       == IntQuery(obj, "bit_rate")

stream_bytes(obj) ==
    LET v == Get(obj.d, K("TAG:NUMBER_OF_BYTES"), <<>>)
    IN  Return(PyInt(IF IntParses(v) THEN IntOf(v) ELSE 0))

stream_title(obj) ==
    Return(PyStr(Get(obj.d, K("TAG:title"), <<"No title has been set">>)))

\* iso639.Lang(code).name, for the codes of the model
LangName == [c \in {<<"eng">>} |-> <<"English">>]

language(obj) ==
    LET strLang == Get(obj.d, K("TAG:language"), <<"Und">>)
    IN  IF strLang \notin {<<"und">>, <<"Und">>}
        THEN IF strLang \in DOMAIN LangName
             THEN Return(PyDict(strLang, LangName[strLang]))
             ELSE Raise("InvalidLanguageValue")
        ELSE Return(PyDict(<<"und">>, <<"Undefined">>))

disposition_keys ==
    <<"default", "dub", "original", "comment", "lyrics", "karaoke", "forced",
      "hearing_impaired", "visual_impaired", "clean_effects", "attached_pic",
      "timed_thumbnails", "captions", "descriptions", "metadata", "dependent",
      "still_image">>

\* the DISPOSITION:<flag> key of the i-th flag, as the block spells it
DispositionKey(i) == <<"DISPOSITION:", disposition_keys[i]>>

\* int() of every flag, uncaught: the first flag that is missing or not an
\* integer raises ValueError
audio_channel_dispositions(obj) ==
    IF \E i \in 1..Len(disposition_keys) : ~IntParses(Get(obj.d, DispositionKey(i), <<>>))
    THEN Raise("ValueError")
    ELSE Return([tag |-> "dict",
                 val |-> [i \in 1..Len(disposition_keys) |->
                            IntOf(obj.d[DispositionKey(i)])]])

\* float(s), in microseconds: the decimal tokens of the model
FloatTok == [t \in DOMAIN IntTok \cup {"1.5"} |->
               IF t = "1.5" THEN 1500000 ELSE IntTok[t] * 1000000]
FloatParses(s) == Len(Strip(s)) = 1 /\ Strip(s)[1] \in DOMAIN FloatTok
FloatOf(s) == FloatTok[Strip(s)[1]]

\* the digit tokens of a time: a field of %H, %M or %S, and the fraction %f
\* (one to six digits, read as the leading digits of the microseconds)
FieldTok == [t \in {"00", "01", "0", "1", "2", "3", "5", "30"} |->
               CASE t \in {"00", "0"} -> 0 [] t \in {"01", "1"} -> 1 [] t = "2" -> 2
                 [] t = "3" -> 3 [] t = "5" -> 5 [] t = "30" -> 30]
FracTok == [t \in {"0", "00", "5", "500000"} |->
               IF t \in {"0", "00"} THEN 0 ELSE 500000]

\* datetime.strptime(s, '%H:%M:%S,%f') succeeds
TimeParses(s) ==
    /\ Len(s) = 7
    /\ s[2] = ":" /\ s[4] = ":" /\ s[6] = ","
    /\ s[1] \in DOMAIN FieldTok /\ FieldTok[s[1]] < 24
    /\ s[3] \in DOMAIN FieldTok /\ FieldTok[s[3]] < 60
    /\ s[5] \in DOMAIN FieldTok /\ FieldTok[s[5]] < 60
    /\ s[7] \in DOMAIN FracTok

\* pt.second + pt.minute*60 + pt.hour*3600 + pt.microsecond / 1000000, in microseconds
TimeSeconds(s) ==
    (FieldTok[s[5]] + FieldTok[s[3]] * 60 + FieldTok[s[1]] * 3600) * 1000000 + FracTok[s[7]]

NA == <<"N", "/", "A">>

duration_seconds(obj) ==
    IF is_video(obj) \/ is_audio(obj)
    THEN LET durValue  == Get(obj.d, K("duration"), <<>>)
             tDurValue == Get(obj.d, K("TAG:DURATION"), <<>>)
         IN  IF FloatParses(durValue) THEN Return(PyFloat(FloatOf(durValue)))
             ELSE IF TimeParses(tDurValue) THEN Return(PyFloat(TimeSeconds(tDurValue)))
             ELSE IF durValue = NA /\ tDurValue = NA THEN Return(PyInt(0))
             ELSE Raise("UnboundLocalError")
    ELSE Return(PyFloat(0))

----------------------------------------------------------------------------
(* FFProbe.__init__: the two scans and the classification pass *)

\* a mutant of ScanBlock: a [STREAM] line does not reset data_lines
ScanBlockKeepsLines(st, ln) ==
    IF Contains(ln, "[STREAM]")
    THEN [stream |-> TRUE, data_lines |-> st.data_lines, streams |-> st.streams,
          exc |-> "none"]
    ELSE IF Contains(ln, "[/STREAM]") /\ st.stream
    THEN LET r == FFStream(st.data_lines)
         IN  IF r.exc # "none"
             THEN [stream |-> FALSE, data_lines |-> st.data_lines,
                   streams |-> st.streams, exc |-> r.exc]
             ELSE [stream |-> FALSE, data_lines |-> st.data_lines,
                   streams |-> Append(st.streams, r.obj), exc |-> "none"]
    ELSE IF st.stream
    THEN [stream |-> TRUE, data_lines |-> Append(st.data_lines, ln),
          streams |-> st.streams, exc |-> "none"]
    ELSE [stream |-> st.stream, data_lines |-> st.data_lines,
          streams |-> st.streams, exc |-> "none"]

\* the if/elif chain of the stdout loop on one line; st holds the locals
\* stream, data_lines and self.streams
ScanBlock(st, ln) ==
    IF Contains(ln, "[STREAM]")
    THEN [stream |-> TRUE, data_lines |-> <<>>, streams |-> st.streams, exc |-> "none"]
    ELSE IF Contains(ln, "[/STREAM]") /\ st.stream
    THEN LET r == FFStream(st.data_lines)
         IN  IF r.exc # "none"
             THEN [stream |-> FALSE, data_lines |-> st.data_lines,
                   streams |-> st.streams, exc |-> r.exc]
             ELSE [stream |-> FALSE, data_lines |-> st.data_lines,
                   streams |-> Append(st.streams, r.obj), exc |-> "none"]
    ELSE IF st.stream
    THEN [stream |-> TRUE, data_lines |-> Append(st.data_lines, ln),
          streams |-> st.streams, exc |-> "none"]
    ELSE [stream |-> st.stream, data_lines |-> st.data_lines,
          streams |-> st.streams, exc |-> "none"]

\* the same chain, as the stderr loop repeats it after its metadata chain
ScanBlockStderr(st, ln) ==
    IF Contains(ln, "[STREAM]")
    THEN [stream |-> TRUE, data_lines |-> <<>>, streams |-> st.streams, exc |-> "none"]
    ELSE IF Contains(ln, "[/STREAM]") /\ st.stream
    THEN LET r == FFStream(st.data_lines)
         IN  IF r.exc # "none"
             THEN [stream |-> FALSE, data_lines |-> st.data_lines,
                   streams |-> st.streams, exc |-> r.exc]
             ELSE [stream |-> FALSE, data_lines |-> st.data_lines,
                   streams |-> Append(st.streams, r.obj), exc |-> "none"]
    ELSE IF st.stream
    THEN [stream |-> TRUE, data_lines |-> Append(st.data_lines, ln),
          streams |-> st.streams, exc |-> "none"]
    ELSE [stream |-> st.stream, data_lines |-> st.data_lines,
          streams |-> st.streams, exc |-> "none"]

\* tokens that are not made of word characters (\w) only
NonWord == WS \cup {":", "=", ",", "/", "[STREAM]", "[/STREAM]", "Metadata:", "Stream #"}

\* re.search(r'(\w+)\s*:\s*(.*)$', s): where the leftmost word that is followed,
\* after optional whitespace, by ":" stands in s; 0 when there is none (m is None)
MatchAt(s) ==
    LET hit(i) == /\ s[i] \notin NonWord
                  /\ \E j \in (i + 1)..Len(s) :
                        s[j] = ":" /\ \A k \in (i + 1)..(j - 1) : s[k] \in WS
    IN  IF \E i \in 1..Len(s) : hit(i)
        THEN CHOOSE i \in 1..Len(s) : hit(i) /\ \A h \in 1..(i - 1) : ~hit(h)
        ELSE 0

\* m.groups()[0]
MatchKey(s) == s[MatchAt(s)]

\* m.groups()[1].strip()
MatchValue(s) ==
    LET i == MatchAt(s)
        j == CHOOSE c \in (i + 1)..Len(s) : s[c] = ":" /\ \A k \in (i + 1)..(c - 1) : s[k] \in WS
    IN  Strip(SubSeq(s, j + 1, Len(s)))

\* the loop over line.split(','): m.groups() of a segment that does not match
\* raises AttributeError, with the pairs of the segments before it already stored
RECURSIVE MetaSegments(_, _)
MetaSegments(md, splits) ==
    IF splits = <<>> THEN [metadata |-> md, exc |-> "none"]
    ELSE IF MatchAt(Head(splits)) = 0 THEN [metadata |-> md, exc |-> "AttributeError"]
    ELSE MetaSegments(Put(md, MatchKey(Head(splits)), MatchValue(Head(splits))),
                      Tail(splits))

\* a mutant of MetaChain: a `Stream #` line does not set stream_metadata_met
MetaChainForgets(m, ln) ==
    IF Contains(ln, "Metadata:") /\ ~m.stream_metadata_met
    THEN [metadata |-> m.metadata, is_metadata |-> TRUE,
          stream_metadata_met |-> m.stream_metadata_met, exc |-> "none"]
    ELSE IF Contains(ln, "Stream #")
    THEN [metadata |-> m.metadata, is_metadata |-> FALSE,
          stream_metadata_met |-> m.stream_metadata_met, exc |-> "none"]
    ELSE IF m.is_metadata
    THEN LET r == MetaSegments(m.metadata, Split(ln, ","))
         IN  [metadata |-> r.metadata, is_metadata |-> m.is_metadata,
              stream_metadata_met |-> m.stream_metadata_met, exc |-> r.exc]
    ELSE [metadata |-> m.metadata, is_metadata |-> m.is_metadata,
          stream_metadata_met |-> m.stream_metadata_met, exc |-> "none"]

\* the first if/elif chain of the stderr loop on one line; m holds
\* self.metadata and the locals is_metadata and stream_metadata_met
MetaChain(m, ln) ==
    IF Contains(ln, "Metadata:") /\ ~m.stream_metadata_met
    THEN [metadata |-> m.metadata, is_metadata |-> TRUE,
          stream_metadata_met |-> m.stream_metadata_met, exc |-> "none"]
    ELSE IF Contains(ln, "Stream #")
    THEN [metadata |-> m.metadata, is_metadata |-> FALSE,
          stream_metadata_met |-> TRUE, exc |-> "none"]
    ELSE IF m.is_metadata
    THEN LET r == MetaSegments(m.metadata, Split(ln, ","))
         IN  [metadata |-> r.metadata, is_metadata |-> m.is_metadata,
              stream_metadata_met |-> m.stream_metadata_met, exc |-> r.exc]
    ELSE [metadata |-> m.metadata, is_metadata |-> m.is_metadata,
          stream_metadata_met |-> m.stream_metadata_met, exc |-> "none"]

NoLists == [video |-> <<>>, audio |-> <<>>, subtitle |-> <<>>, attachment |-> <<>>]

\* a mutant of ClassifyStream: the last test is a plain else
ClassifyStreamElse(lists, i, obj) ==
    IF is_audio(obj) THEN [lists EXCEPT !.audio = Append(@, i)]
    ELSE IF is_video(obj) THEN [lists EXCEPT !.video = Append(@, i)]
    ELSE IF is_subtitle(obj) THEN [lists EXCEPT !.subtitle = Append(@, i)]
    ELSE [lists EXCEPT !.attachment = Append(@, i)]

\* the body of the classification loop for self.streams[i]; the kind lists hold
\* references to the objects of self.streams, modelled by their positions
ClassifyStream(lists, i, obj) ==
    IF is_audio(obj) THEN [lists EXCEPT !.audio = Append(@, i)]
    ELSE IF is_video(obj) THEN [lists EXCEPT !.video = Append(@, i)]
    ELSE IF is_subtitle(obj) THEN [lists EXCEPT !.subtitle = Append(@, i)]
    ELSE IF is_attachment(obj) THEN [lists EXCEPT !.attachment = Append(@, i)]
    ELSE lists

\* for stream in self.streams: ..., over the first n streams
RECURSIVE ClassifyAll(_, _)
ClassifyAll(ss, n) ==
    IF n = 0 THEN NoLists ELSE ClassifyStream(ClassifyAll(ss, n - 1), n, ss[n])

----------------------------------------------------------------------------
(* Inputs *)

NL == "\n"

\* what ffprobe may write to stdout, line by line: the block markers, fields,
\* a blank line, a field whose value holds a further "="
StdoutLines ==
    { <<"[STREAM]", NL>>, <<"[/STREAM]", NL>>,
      <<"codec_type", "=", "video", NL>>, <<"index", "=", "0", NL>>,
      <<NL>>,
      <<"TAG:title", "=", "a", "=", "b", NL>> }

\* what ffprobe may write to stderr, line by line
StderrLines ==
    { <<" ", " ", "Metadata:", NL>>,
      <<" ", " ", "Stream #", "0", NL>>,
      <<" ", " ", "Stream #", "0", " ", "Metadata:", NL>>,
      <<" ", "title", " ", ":", " ", "My", " ", "Movie", ",", " ", "year", " ", ":", " ", "2020", NL>>,
      <<NL>>,
      <<"[STREAM]", NL>>, <<"[/STREAM]", NL>>,
      <<"codec_type", "=", "video", NL>> }

\* stdout lines for the classification pass: blocks of every kind
KindStdoutLines ==
    { <<"[STREAM]", NL>>, <<"[/STREAM]", NL>>,
      <<"codec_type", "=", "video", NL>>, <<"codec_type", "=", "audio", NL>>,
      <<"codec_type", "=", "subtitle", NL>>, <<"codec_type", "=", "attachment", NL>>,
      <<"codec_type", "=", "data", NL>> }

\* stderr lines for the classification pass
KindStderrLines ==
    { <<"[STREAM]", NL>>, <<"[/STREAM]", NL>>, <<"codec_type", "=", "audio", NL>> }

\* block lines for record construction
BuildLines ==
    { <<"codec_type", "=", "video", NL>>,
      <<"avg_frame_rate", "=", "30", "/", "1", NL>>,
      <<"avg_frame_rate", "=", "0", "/", "1", NL>>,
      <<"avg_frame_rate", "=", "30", "/", "0", NL>>,
      <<"avg_frame_rate", "=", "abc", "/", "1", NL>>,
      <<"avg_frame_rate", "=", "5", "/", "2", NL>>,
      <<"avg_frame_rate", "=", "5", "/", "3", NL>>,
      <<"avg_frame_rate", "=", "3", "/", "2", NL>>,
      <<"avg_frame_rate", "=", "0", "/", "0", NL>>,
      <<"framerate", "=", "5", NL>>,
      <<NL>>,
      <<"TAG:title", "=", "a", "=", "b", NL>> }

\* block lines for the queries
QueryLines ==
    { <<"codec_type", "=", "video", NL>>, <<"codec_type", "=", "audio", NL>>,
      <<"codec_type", "=", "subtitle", NL>>,
      <<"width", "=", "1920", NL>>, <<"height", "=", "1080", NL>>,
      <<"nb_frames", "=", "30", NL>>,
      <<"duration", "=", "1.5", NL>>, <<"duration", "=", "N", "/", "A", NL>>,
      <<"TAG:DURATION", "=", "00", ":", "00", ":", "01", ",", "500000", NL>>,
      <<"TAG:DURATION", "=", "N", "/", "A", NL>>,
      <<"TAG:language", "=", "eng", NL>> }

\* the sequences over S of length n at most
RECURSIVE SeqsUpTo(_, _)
SeqsUpTo(S, n) ==
    IF n = 0 THEN {<<>>}
    ELSE LET shorter == SeqsUpTo(S, n - 1)
         IN  shorter \cup {Append(q, x) : q \in shorter, x \in S}

----------------------------------------------------------------------------
(* FFProbe.__init__ as a state machine: one step per line read, one for each
   end of stream, one for the classification pass *)

Init ==
    /\ pc = "stdout"
    /\ out = <<>>
    /\ nerr = 0
    /\ line = <<>>
    /\ stream = FALSE
    /\ data_lines = <<>>
    /\ streams = <<>>
    /\ metadata = EmptyDict
    /\ is_metadata = FALSE
    /\ stream_metadata_met = FALSE
    /\ video = <<>> /\ audio = <<>> /\ subtitle = <<>> /\ attachment = <<>>
    /\ exc = "none"
    /\ self = NewObject
    /\ ret = [query |-> "none", result |-> Return(None)]

\* one iteration of `for line in iter(p.stdout.readline, b'')`
ReadStdout(Lines) ==
    /\ pc = "stdout"
    /\ Len(out) + nerr < MaxLines
    /\ \E l \in Lines :
         LET r == ScanBlock([stream |-> stream, data_lines |-> data_lines,
                             streams |-> streams], l)
         IN  /\ out' = Append(out, l)
             /\ stream' = r.stream
             /\ data_lines' = r.data_lines
             /\ streams' = r.streams
             /\ exc' = r.exc
             /\ pc' = IF r.exc = "none" THEN "stdout" ELSE "raised"
    /\ UNCHANGED <<nerr, line, metadata, is_metadata, stream_metadata_met,
                   video, audio, subtitle, attachment, self, ret>>

\* p.stdout is exhausted: the locals of the metadata scan are set up
EndStdout ==
    /\ pc = "stdout"
    /\ pc' = "stderr"
    /\ metadata' = EmptyDict
    /\ is_metadata' = FALSE
    /\ stream_metadata_met' = FALSE
    /\ UNCHANGED <<out, nerr, line, stream, data_lines, streams,
                   video, audio, subtitle, attachment, exc, self, ret>>

\* one iteration of `for line in iter(p.stderr.readline, b'')`: the metadata
\* chain, then the block chain
ReadStderr(Lines) ==
    /\ pc = "stderr"
    /\ Len(out) + nerr < MaxLines
    /\ \E l \in Lines :
         LET m == MetaChain([metadata |-> metadata, is_metadata |-> is_metadata,
                             stream_metadata_met |-> stream_metadata_met], l)
             r == IF m.exc # "none"
                  THEN [stream |-> stream, data_lines |-> data_lines,
                        streams |-> streams, exc |-> m.exc]
                  ELSE ScanBlockStderr([stream |-> stream, data_lines |-> data_lines,
                                        streams |-> streams], l)
         IN  /\ nerr' = nerr + 1
             /\ line' = l
             /\ metadata' = m.metadata
             /\ is_metadata' = m.is_metadata
             /\ stream_metadata_met' = m.stream_metadata_met
             /\ stream' = r.stream
             /\ data_lines' = r.data_lines
             /\ streams' = r.streams
             /\ exc' = r.exc
             /\ pc' = IF r.exc = "none" THEN "stderr" ELSE "raised"
    /\ UNCHANGED <<out, video, audio, subtitle, attachment, self, ret>>

\* p.stderr is exhausted
EndStderr ==
    /\ pc = "stderr"
    /\ pc' = "classify"
    /\ UNCHANGED <<out, nerr, line, stream, data_lines, streams, metadata, is_metadata,
                   stream_metadata_met, video, audio, subtitle, attachment,
                   exc, self, ret>>

\* the classification pass over self.streams
Classify ==
    /\ pc = "classify"
    /\ LET lists == ClassifyAll(streams, Len(streams))
       IN  /\ video' = lists.video
           /\ audio' = lists.audio
           /\ subtitle' = lists.subtitle
           /\ attachment' = lists.attachment
    /\ pc' = "done"
    /\ UNCHANGED <<out, nerr, line, stream, data_lines, streams, metadata, is_metadata,
                   stream_metadata_met, exc, self, ret>>

Next ==
    \/ ReadStdout(StdoutLines)
    \/ EndStdout
    \/ ReadStderr(StderrLines)
    \/ EndStderr
    \/ Classify

Spec == Init /\ [][Next]_vars

\* the same program on inputs whose blocks are of every kind
NextKinds ==
    \/ ReadStdout(KindStdoutLines)
    \/ EndStdout
    \/ ReadStderr(KindStderrLines)
    \/ EndStderr
    \/ Classify

SpecKinds == Init /\ [][NextKinds]_vars

----------------------------------------------------------------------------
(* FFStream on its own: an object is built from a block, then queried *)

ProbeIdle ==
    /\ out = <<>> /\ nerr = 0 /\ line = <<>>
    /\ stream = FALSE
    /\ streams = <<>>
    /\ metadata = EmptyDict
    /\ is_metadata = FALSE
    /\ stream_metadata_met = FALSE
    /\ video = <<>> /\ audio = <<>> /\ subtitle = <<>> /\ attachment = <<>>

probe == <<out, nerr, line, stream, streams, metadata, is_metadata,
           stream_metadata_met, video, audio, subtitle, attachment>>

InitRecord(Lines) ==
    /\ pc = "new"
    /\ data_lines \in SeqsUpTo(Lines, MaxData)
    /\ ProbeIdle
    /\ exc = "none"
    /\ self = NewObject
    /\ ret = [query |-> "none", result |-> Return(None)]

\* self = FFStream(data_lines)
Construct ==
    /\ pc = "new"
    /\ LET r == FFStream(data_lines)
       IN  /\ self' = r.obj
           /\ exc' = r.exc
           /\ pc' = IF r.exc = "none" THEN "built" ELSE "raised"
    /\ UNCHANGED <<probe, data_lines, ret>>

Queries ==
    {"frame_size", "aspect_ratio", "color_range", "pixel_format", "frames",
     "duration_seconds", "language", "codec", "audio_channels", "stream_index",
     "channel_layout", "audio_channel_dispositions", "codec_description",
     "codec_tag", "bit_rate", "stream_bytes", "stream_title"}

\* self.<q>()
Call(q, obj) ==
    CASE q = "frame_size"        -> frame_size(obj)
      [] q = "aspect_ratio"      -> aspect_ratio(obj)
      [] q = "color_range"       -> color_range(obj)
      [] q = "pixel_format"      -> pixel_format(obj)
      [] q = "frames"            -> frames(obj)
      [] q = "duration_seconds"  -> duration_seconds(obj)
      [] q = "language"          -> language(obj)
      [] q = "codec"             -> codec(obj)
      [] q = "audio_channels"    -> audio_channels(obj)
      [] q = "stream_index"      -> stream_index(obj)
      [] q = "channel_layout"    -> channel_layout(obj)
      [] q = "audio_channel_dispositions" -> audio_channel_dispositions(obj)
      [] q = "codec_description" -> codec_description(obj)
      [] q = "codec_tag"         -> codec_tag(obj)
      [] q = "bit_rate"          -> bit_rate(obj)
      [] q = "stream_bytes"      -> stream_bytes(obj)
      [] q = "stream_title"      -> stream_title(obj)

\* a caller runs one query on the built object
Query ==
    /\ pc = "built"
    /\ \E q \in Queries : ret' = [query |-> q, result |-> Call(q, self)]
    /\ pc' = "queried"
    /\ UNCHANGED <<probe, data_lines, exc, self>>

InitBuild == InitRecord(BuildLines)
SpecBuild == InitBuild /\ [][Construct]_vars

InitQuery == InitRecord(QueryLines)
NextQuery == Construct \/ Query
SpecQuery == InitQuery /\ [][NextQuery]_vars

----------------------------------------------------------------------------
(* What the input says, read off the input alone *)

IsOpen(l)  == "[STREAM]" \in Range(l)
IsClose(l) == "[/STREAM]" \in Range(l)

\* the positions of the "=" characters of a line
EqAt(l) == {p \in 1..Len(l) : l[p] = "="}

FirstEq(l) == CHOOSE p \in EqAt(l) : \A q \in EqAt(l) : p <= q

\* a line of shape key=value with one "=", and no block marker
IsField(l) == Cardinality(EqAt(l)) = 1 /\ ~IsOpen(l) /\ ~IsClose(l)

\* the key before the first "=" and the whole value after it, without the
\* white space around the line
FieldKey(l)   == LStrip(SubSeq(l, 1, FirstEq(l) - 1))
FieldValue(l) == RStrip(SubSeq(l, FirstEq(l) + 1, Len(l)))

\* the key/value pairs of a run of field lines, a repeated key keeping its
\* last value
PairsOf(ls) ==
    [k \in {FieldKey(ls[i]) : i \in 1..Len(ls)} |->
        LET last == CHOOSE i \in 1..Len(ls) :
                       /\ FieldKey(ls[i]) = k
                       /\ \A j \in (i + 1)..Len(ls) : FieldKey(ls[j]) # k
        IN  FieldValue(ls[last])]

Opens(s) == {i \in 1..Len(s) : IsOpen(s[i])}

\* the first [/STREAM] after position i, 0 when there is none
CloseOf(s, i) ==
    IF \E j \in (i + 1)..Len(s) : IsClose(s[j])
    THEN CHOOSE j \in (i + 1)..Len(s) :
            IsClose(s[j]) /\ \A h \in (i + 1)..(j - 1) : ~IsClose(s[h])
    ELSE 0

\* the position of the k-th [STREAM]
NthOpen(s, k) == CHOOSE i \in Opens(s) : Cardinality({j \in Opens(s) : j <= i}) = k

\* the lines strictly inside the block opened at i
Inner(s, i) == SubSeq(s, i + 1, CloseOf(s, i) - 1)

\* every [STREAM] is closed, and between it and its [/STREAM] stand field lines only
WellFormed(s) ==
    \A i \in Opens(s) :
        /\ CloseOf(s, i) # 0
        /\ \A h \in (i + 1)..(CloseOf(s, i) - 1) : IsField(s[h])

\* the scan of stdout has just ended
StdoutScanned == pc = "stderr" /\ nerr = 0

----------------------------------------------------------------------------
(* C1 *)

\* C1: after the scan of a stdout made of well-formed, non-nested blocks of
\* key=value lines with other lines between them, self.streams holds one record
\* per block, in the order of the blocks, each with exactly the pairs of its
\* own block; the lines outside the blocks are in no record.
C1_OneRecordPerBlock ==
    (StdoutScanned /\ WellFormed(out)) =>
        /\ Len(streams) = Cardinality(Opens(out))
        /\ \A k \in 1..Len(streams) :
              streams[k].d = PairsOf(Inner(out, NthOpen(out, k)))

\* two blocks, the first with a field and the second without, and a line that
\* is in no block
C1_Witness ==
    /\ StdoutScanned /\ WellFormed(out)
    /\ Len(streams) = 2
    /\ DOMAIN streams[1].d = {<<"codec_type">>}
    /\ DOMAIN streams[2].d = {}
    /\ \E h \in 1..Len(out) :
          /\ ~IsOpen(out[h]) /\ ~IsClose(out[h])
          /\ \A i \in Opens(out) : h < i \/ h > CloseOf(out, i)

----------------------------------------------------------------------------
(* C2 *)

\* C2: the metadata scan leaves self.streams as the scan of stdout left it:
\* no step of the stderr loop adds a record.
C2_StderrLeavesStreams == [][pc = "stderr" => streams' = streams]_vars

----------------------------------------------------------------------------
(* C3 *)

\* the step reads a line of stderr
ReadsStderrLine == pc = "stderr" /\ nerr' = nerr + 1

\* C3, as claimed: IN_METADATA and a line containing `Stream #` give DONE, and
\* once DONE the mapping never changes again and DONE stays.
C3_AnyStreamLineEnds ==
    [][ /\ (ReadsStderrLine /\ is_metadata /\ Contains(line', "Stream #"))
            => (stream_metadata_met' /\ ~is_metadata')
        /\ stream_metadata_met
            => (stream_metadata_met' /\ ~is_metadata' /\ metadata' = metadata) ]_vars

\* C3, amended: IN_METADATA and a line containing `Stream #` and not
\* `Metadata:` give DONE; once DONE the mapping never changes again and DONE
\* stays; the mapping changes only on a line read while IN_METADATA that holds
\* neither marker, and IN_METADATA is entered only on a `Metadata:` line read
\* before DONE.
C3_StreamLineEnds ==
    [][ /\ (ReadsStderrLine /\ is_metadata /\ Contains(line', "Stream #")
              /\ ~Contains(line', "Metadata:"))
            => (stream_metadata_met' /\ ~is_metadata')
        /\ stream_metadata_met
            => (stream_metadata_met' /\ ~is_metadata' /\ metadata' = metadata)
        /\ (pc = "stderr" /\ metadata' # metadata)
            => (/\ ReadsStderrLine /\ is_metadata /\ ~stream_metadata_met
                /\ ~Contains(line', "Stream #") /\ ~Contains(line', "Metadata:"))
        /\ (pc = "stderr" /\ is_metadata' /\ ~is_metadata)
            => (ReadsStderrLine /\ Contains(line', "Metadata:") /\ ~stream_metadata_met)
      ]_vars

\* DONE with pairs collected, and a later `Metadata:` line has just been read
\* without opening a section again
C3_Witness ==
    /\ pc = "stderr" /\ stream_metadata_met /\ ~is_metadata
    /\ DOMAIN metadata = {"title", "year"}
    /\ Contains(line, "Metadata:") /\ ~Contains(line, "Stream #")

----------------------------------------------------------------------------
(* C4 *)

\* C4: a segment that does not match key : value is skipped: the metadata scan
\* never raises on it.
C4_SegmentSkipped == ~(pc = "raised" /\ exc = "AttributeError")

----------------------------------------------------------------------------
(* C5 *)

\* C5: a block line without "=" contributes no field and does not abort the
\* parse: building the record of a block never raises.
C5_MalformedLineSkipped == ~(pc = "raised" /\ exc = "ValueError")

----------------------------------------------------------------------------
(* C6 *)

Kinds == {"video", "audio", "subtitle", "attachment"}

KindList(k) ==
    CASE k = "video" -> video [] k = "audio" -> audio
      [] k = "subtitle" -> subtitle [] k = "attachment" -> attachment

\* the record's codec_type is the literal k
HasKind(obj, k) == <<"codec_type">> \in DOMAIN obj.d /\ obj.d[<<"codec_type">>] = <<k>>

\* the list refers to streams of self.streams, each once, in their order
Ordered(l) ==
    /\ \A p \in 1..Len(l) : l[p] \in 1..Len(streams)
    /\ \A p, q \in 1..Len(l) : p < q => l[p] < l[q]

\* C6: after the classification pass a stream is in the list of kind k iff its
\* codec_type is the literal k; a stream of no such kind answers false to the
\* four predicates and is in no list; no stream is in two lists; a kind list
\* holds streams of the full list, each once, in the order of the full list.
C6_Partition ==
    pc = "done" =>
        /\ \A i \in 1..Len(streams) :
              /\ \A k \in Kinds : (i \in Range(KindList(k))) <=> HasKind(streams[i], k)
              /\ Cardinality({k \in Kinds : i \in Range(KindList(k))}) <= 1
              /\ (\A k \in Kinds : ~HasKind(streams[i], k)) =>
                    /\ ~is_video(streams[i]) /\ ~is_audio(streams[i])
                    /\ ~is_subtitle(streams[i]) /\ ~is_attachment(streams[i])
                    /\ \A k \in Kinds : i \notin Range(KindList(k))
        /\ \A k \in Kinds : Ordered(KindList(k))

\* a stream of another kind and an audio stream, classified
C6_Witness ==
    /\ pc = "done"
    /\ Len(streams) = 2
    /\ HasKind(streams[1], "data")
    /\ audio = <<2>>
    /\ video = <<>> /\ subtitle = <<>> /\ attachment = <<>>

----------------------------------------------------------------------------
(* C7 *)

\* the keys a query reads
SourceKeys(q) ==
    CASE q = "frame_size"        -> {"width", "height"}
      [] q = "aspect_ratio"      -> {"display_aspect_ratio"}
      [] q = "color_range"       -> {"color_range"}
      [] q = "pixel_format"      -> {"pix_fmt"}
      [] q = "frames"            -> {"nb_frames"}
      [] q = "duration_seconds"  -> {"duration", "TAG:DURATION"}
      [] q = "language"          -> {"TAG:language"}
      [] q = "codec"             -> {"codec_name"}
      [] q = "audio_channels"    -> {"channels"}
      [] q = "stream_index"      -> {"index"}
      [] q = "channel_layout"    -> {"channel_layout"}
      [] q = "codec_description" -> {"codec_long_name"}
      [] q = "codec_tag"         -> {"codec_tag_string"}
      [] q = "bit_rate"          -> {"bit_rate"}
      [] q = "stream_bytes"      -> {"TAG:NUMBER_OF_BYTES"}
      [] q = "stream_title"      -> {"TAG:title"}
      [] OTHER                   -> {}

\* the record lacks what the query reads: one of width and height for
\* frame_size, every source key for the other queries
Lacks(obj, q) ==
    /\ SourceKeys(q) # {}
    /\ IF q = "frame_size"
       THEN \E k \in SourceKeys(q) : <<k>> \notin DOMAIN obj.d
       ELSE \A k \in SourceKeys(q) : <<k>> \notin DOMAIN obj.d

\* C7: a query called on a record that lacks the query's source keys returns
\* (the absent or default value) and raises nothing.
C7_MissingNeverRaises ==
    (pc = "queried" /\ Lacks(self, ret.query)) => ~ret.result.raised

----------------------------------------------------------------------------
(* C8 *)

\* the lines of the block whose key is avg_frame_rate
RateLines(ls) == {i \in 1..Len(ls) : FieldKey(ls[i]) = <<"avg_frame_rate">>}

\* the block's avg_frame_rate, its last if it has several
RateOf(ls) == FieldValue(ls[CHOOSE i \in RateLines(ls) : \A j \in RateLines(ls) : j <= i])

IsInt(t) == t \in DOMAIN IntTok

\* the record has no framerate, or None
FramerateAbsent(obj) == ~obj.set \/ obj.framerate.tag = "None"

FramerateIs(obj, i) == obj.set /\ obj.framerate.tag = "int" /\ obj.framerate.val = i

\* i is an integer nearest to n / d
Nearest(i, n, d) ==
    LET twice == 2 * (i * d - n)
    IN  (IF twice < 0 THEN -twice ELSE twice) <= (IF d < 0 THEN -d ELSE d)

----------------------------------------------------------------------------
(* C9 *)

\* the last line of the block with the key of line i
LastOfKey(ls, i) == \A j \in (i + 1)..Len(ls) : FieldKey(ls[j]) # FieldKey(ls[i])

\* C9: the record maps the key of a line k=v to everything after the line's
\* first "=", further "=" included.
C9_SplitOnFirstEq ==
    pc = "built" =>
        \A i \in 1..Len(data_lines) :
            (FieldKey(data_lines[i]) # <<"framerate">> /\ LastOfKey(data_lines, i)) =>
                /\ FieldKey(data_lines[i]) \in DOMAIN self.d
                /\ self.d[FieldKey(data_lines[i])] = FieldValue(data_lines[i])

----------------------------------------------------------------------------
(* C10 *)

\* the value under key, <<>> when the record has none
Field(obj, key) == IF <<key>> \in DOMAIN obj.d THEN obj.d[<<key>>] ELSE <<>>

\* C10: duration_seconds never fails: on a video or audio record it returns
\* the float of duration when that parses, else the seconds of TAG:DURATION
\* when that parses, else 0; on a record of another kind it returns 0.0.
C10_DurationTotal ==
    (pc = "queried" /\ ret.query = "duration_seconds") =>
        /\ ~ret.result.raised
        /\ ret.result.val.tag \in {"float", "int"}
        /\ ret.result.val.val =
              IF HasKind(self, "video") \/ HasKind(self, "audio")
              THEN IF FloatParses(Field(self, "duration"))
                   THEN FloatOf(Field(self, "duration"))
                   ELSE IF TimeParses(Field(self, "TAG:DURATION"))
                        THEN TimeSeconds(Field(self, "TAG:DURATION"))
                        ELSE 0
              ELSE 0

====
